---- MODULE Spec2Model ----
(***************************************************************************)
(* TrustVerifier: the trust-score computation of src/api/index.py          *)
(* (_fetch_github, _calc_score, handler) and the pilot cohort tracker of   *)
(* src/pilot.py (ingest_snapshot, get_agent_score, get_cohort_status,      *)
(* get_snapshot, compute_pdr, compute_quality_score).                      *)
(*                                                                         *)
(* Specifications: SpecScore (_calc_score), SpecBonus (its evidence        *)
(* bonuses on every base value), SpecHttp (the routes of handler), SpecPdr *)
(* (the core functions on snapshot sequences), SpecPilot (the pilot        *)
(* endpoints on the data directory) and SpecRace (score requests of        *)
(* several processes interleaved).  Each leaves the variables of the       *)
(* others at their initial values.                                         *)
(*                                                                         *)
(* Numbers: Python floats are modelled exactly.  The weighted total is     *)
(* kept in hundredths (weights 0.25, 0.25, 0.2, 0.15, 0.15 become 25, 25,  *)
(* 20, 15, 15), velocities and the PDR are fractions [n, d] with d > 0.    *)
(* int(ratio * 10) of a float quotient is (10 * followers) \div following. *)
(***************************************************************************)
EXTENDS Integers, Sequences, FiniteSets, TLC

Min(a, b) == IF a <= b THEN a ELSE b

Max(a, b) == IF a >= b THEN a ELSE b

(***************************************************************************)
(* ScoreEngine, src/api/index.py                                           *)
(***************************************************************************)

\* The keys of TRUST_FACTORS, in the order of the dict.
FactorNames == <<"identity", "provenance", "behavior", "reputation", "transparency">>

\* TRUST_FACTORS[k]["weight"], in hundredths.
TRUST_FACTORS ==
    [identity |-> 25, provenance |-> 25, behavior |-> 20,
     reputation |-> 15, transparency |-> 15]

\* The identifiers scored.  The last one is the JSON string "\ud800": a
\* one-character str holding a lone surrogate, which json.loads accepts in
\* the body of POST /verify and POST /batch.
Identifiers == {"torvalds", "gerundium", "\\ud800"}

\* str.encode() (UTF-8) raises UnicodeEncodeError on a lone surrogate, and
\* so does the ASCII encoding of the request line in urlopen.
Encodable(s) == s # "\\ud800"

\* int(hashlib.sha256((agent_id + k).encode()).hexdigest()[:4], 16): the
\* first 16 bits of the SHA-256 digest, tabulated for the identifiers above.
Sha256Hex4(agent_id, k) ==
    CASE agent_id = "torvalds" ->
           [identity |-> 6578, provenance |-> 4674, behavior |-> 3052,
            reputation |-> 32689, transparency |-> 488][k]
      [] agent_id = "gerundium" ->
           [identity |-> 37763, provenance |-> 61237, behavior |-> 11623,
            reputation |-> 48166, transparency |-> 33987][k]
      [] agent_id = "" ->
           [identity |-> 26783, provenance |-> 38616, behavior |-> 2239,
            reputation |-> 21870, transparency |-> 62555][k]
      [] agent_id = "unknown" ->
           [identity |-> 61016, provenance |-> 60227, behavior |-> 15175,
            reputation |-> 25418, transparency |-> 21976][k]

\* A key that the JSON object of the GitHub answer does not hold.
Absent == "<absent>"

\* created_at values of a GitHub answer: absent, empty, or a timestamp.
CreatedValues ==
    {Absent, "", "2010-04-01T10:00:00Z", "2024-06-01T10:00:00Z", "2031-01-15T10:00:00Z"}

\* int(created[:4]) for the timestamps above.
IntPrefix4(created) ==
    CASE created = "2010-04-01T10:00:00Z" -> 2010
      [] created = "2024-06-01T10:00:00Z" -> 2024
      [] created = "2031-01-15T10:00:00Z" -> 2031

\* (followers, following) pairs of a GitHub answer.
FollowPairs == {<<0, 0>>, <<5, 0>>, <<1, 3>>, <<100000, 10>>}

\* What urlopen + json.loads give for https://api.github.com/users/<name>:
\* a user object, or an exception (HTTP 404, a timeout, a transport error).
UserObjects ==
    { [public_repos |-> r, followers |-> fp[1], following |-> fp[2],
       created_at |-> c, bio |-> b, blog |-> g] :
        r \in {0, 15, 50}, fp \in FollowPairs, c \in CreatedValues,
        b \in {"", "kernel hacker"}, g \in {"", "https://kernel.org"} }

Responses ==
    { [kind |-> "ok", data |-> d] : d \in UserObjects }
      \cup { [kind |-> "http404"], [kind |-> "timeout"] }

\* The answers the network can give for a user name.
Network(username) ==
    IF Encodable(username) THEN Responses ELSE { [kind |-> "unicode_error"] }

\* dict.get(key, default)
Get(d, key, default) == IF d[key] = Absent THEN default ELSE d[key]

\* _fetch_github: the user object's fields, or {"found": False} on any
\* exception.
_fetch_github(resp) ==
    IF resp.kind = "ok"
      THEN [found |-> TRUE,
            public_repos |-> resp.data.public_repos,
            followers |-> resp.data.followers,
            following |-> resp.data.following,
            created_at |-> Get(resp.data, "created_at", ""),
            bio |-> resp.data.bio, blog |-> resp.data.blog]
      ELSE [found |-> FALSE]

\* The evidence mappings of POST /verify; NoEvidence is None or {}.
NoEvidence == [github |-> "", website |-> "", did |-> ""]

EvidenceSet ==
    [github : {"", "octocat"}, website : {"", "https://example.org"},
     did : {"", "did:key:z6Mk"}]

\* lines 62-65
IdentityFactor(gh) ==
    LET created   == gh.created_at
        age_score == IF created # ""
                       THEN Min(90, 30 + (2026 - IntPrefix4(created)) * 8)
                       ELSE 40
        bio_bonus == IF gh.bio # "" THEN 10 ELSE 0
    IN  Min(100, age_score + bio_bonus)

\* line 68
ProvenanceFactor(gh) == Min(100, 20 + gh.public_repos * 2)

\* lines 71-72: int(ratio * 10) truncates the float quotient
BehaviorFactor(gh) ==
    LET ratio10 == IF gh.following # 0
                     THEN (gh.followers * 10) \div Max(1, gh.following)
                     ELSE 10
    IN  Min(100, 30 + ratio10 + Min(30, gh.public_repos))

\* line 75
ReputationFactor(gh) == Min(100, 20 + Min(80, gh.followers * 2))

\* lines 78-79
TransparencyFactor(gh) ==
    LET blog_bonus == IF gh.blog # "" THEN 15 ELSE 0
    IN  Min(100, 20 + gh.public_repos * 3 + blog_bonus)

\* lines 57-82: the factors of a profile that was found
FoundFactors(gh) ==
    [identity     |-> IdentityFactor(gh),
     provenance   |-> ProvenanceFactor(gh),
     behavior     |-> BehaviorFactor(gh),
     reputation   |-> ReputationFactor(gh),
     transparency |-> TransparencyFactor(gh)]

\* A demo factor drawn from a wider range than the documented one.
DemoFactorWide(agent_id, k) == 30 + (Sha256Hex4(agent_id, k) % 60)

\* line 87
DemoFactor(agent_id, k) == 30 + (Sha256Hex4(agent_id, k) % 50)

\* lines 85-87: the demo factors
DemoFactors(agent_id) ==
    [k \in {FactorNames[i] : i \in 1..Len(FactorNames)} |-> DemoFactor(agent_id, k)]

\* The evidence bonuses with no ceiling on the last one.
EvidenceBonusesLastUnclamped(factors, evidence, ev_found) ==
    LET f1 == IF evidence.github # "" /\ ev_found
                THEN [factors EXCEPT !.identity = Min(100, @ + 15),
                                     !.transparency = Min(100, @ + 10)]
                ELSE factors
        f2 == IF evidence.website # ""
                THEN [f1 EXCEPT !.transparency = Min(100, @ + 10)]
                ELSE f1
        f3 == IF evidence.did # ""
                THEN [f2 EXCEPT !.identity = @ + 20]
                ELSE f2
    IN  IF evidence = NoEvidence THEN factors ELSE f3

\* lines 92-103: the evidence bonuses, in the order of the code.  ev_found is
\* the "found" of the second _fetch_github call.
EvidenceBonuses(factors, evidence, ev_found) ==
    LET f1 == IF evidence.github # "" /\ ev_found
                THEN [factors EXCEPT !.identity = Min(100, @ + 15),
                                     !.transparency = Min(100, @ + 10)]
                ELSE factors
        f2 == IF evidence.website # ""
                THEN [f1 EXCEPT !.transparency = Min(100, @ + 10)]
                ELSE f1
        f3 == IF evidence.did # ""
                THEN [f2 EXCEPT !.identity = Min(100, @ + 20)]
                ELSE f2
    IN  IF evidence = NoEvidence THEN factors ELSE f3

\* line 106: sum(factors[k] * weight), in hundredths
Total(factors) ==
    factors.identity * TRUST_FACTORS.identity
      + factors.provenance * TRUST_FACTORS.provenance
      + factors.behavior * TRUST_FACTORS.behavior
      + factors.reputation * TRUST_FACTORS.reputation
      + factors.transparency * TRUST_FACTORS.transparency

\* The grade with inclusive lower bounds.
GradeInclusive(total) ==
    IF total >= 9000 THEN "A+"
    ELSE IF total >= 8000 THEN "A"
    ELSE IF total >= 6500 THEN "B"
    ELSE IF total >= 5000 THEN "C"
    ELSE IF total >= 3500 THEN "D"
    ELSE "F"

\* line 108: total in hundredths
Grade(total) ==
    IF total > 9000 THEN "A+"
    ELSE IF total > 8000 THEN "A"
    ELSE IF total > 6500 THEN "B"
    ELSE IF total > 5000 THEN "C"
    ELSE IF total > 3500 THEN "D"
    ELSE "F"

\* What a call that raised leaves: no ScoreResult.  The only statements of
\* _calc_score that can raise on the answers modelled are the two
\* agent_id.encode() of the demo branch.
Raised(exc) ==
    [raised |-> TRUE, error |-> exc]

\* _calc_score(agent_id, evidence): resp is the network's answer to the
\* first _fetch_github, ev_resp its answer to the second (evidence["github"]).
_calc_score(id, ev, resp, ev_resp) ==
    LET github_data == _fetch_github(resp)
        gh          == IF ev # NoEvidence /\ ev.github # ""
                         THEN _fetch_github(ev_resp)
                         ELSE [found |-> FALSE]
        base        == IF github_data.found
                         THEN FoundFactors(github_data)
                         ELSE DemoFactors(id)
        factors     == EvidenceBonuses(base, ev, gh.found)
        total       == Total(factors)
    IN  IF ~github_data.found /\ ~Encodable(id)
          THEN Raised("UnicodeEncodeError")
        ELSE [raised       |-> FALSE,
              agent_id     |-> id,
              total        |-> total,
              grade        |-> Grade(total),
              factors      |-> factors,
              verification |-> IF github_data.found \/ gh.found
                                 THEN "github_verified"
                                 ELSE "demo_unverified"]

(***************************************************************************)
(* PilotMetrics and the pilot endpoints, src/pilot.py                      *)
(***************************************************************************)

\* The longest snapshot sequence handed to compute_pdr in SpecPdr.
MaxSnapshots == 8

\* The dates of SpecPilot are 1..MaxDates: ISO dates (YYYY-MM-DD) in
\* ascending order, which is the order sorted() gives their file names.
MaxDates == 2

Dates == 1..MaxDates

\* The keys of PILOT_COHORT.
PILOT_COHORT ==
    {"getclawe", "ucsandman", "star-ga", "sene1337", "DiffDelta", "clawdeckio",
     "JIGGAI", "profbernardoj", "marian2js", "toml0006"}

\* The agent ids of the requests: one of the cohort and one outside it.
RequestAgents == {"getclawe", "mallory"}

Agents == PILOT_COHORT \cup RequestAgents

\* The Python values of the metadata field: None, or a dict given by its
\* items in order, each a pair of a key and a string.
PyNone == [py |-> "None"]

PyDict(items) == [py |-> "dict", items |-> items]

\* The counts of a SnapshotData body.  Every count is a plain int field:
\* the model accepts any integer, negative ones included.  metadata has its
\* default, the empty dict.
Activity(c, r, i, p, s, n) ==
    [commits |-> c, releases |-> r, issues_closed |-> i, prs_merged |-> p,
     stars_gained |-> s, contributors |-> n, metadata |-> PyDict(<< >>)]

ActivitySamples ==
    {Activity(0, 0, 0, 0, 0, 0), Activity(1, 0, 3, 5, 10, 3),
     Activity(0, 1, 0, 1, 2, 1), Activity(-1, 0, 0, 0, -1, 0)}

\* snapshot.dict(): the fields of SnapshotData.
SnapshotDict(a, d, act) ==
    [agent_id |-> a, date |-> d, commits |-> act.commits,
     releases |-> act.releases, issues_closed |-> act.issues_closed,
     prs_merged |-> act.prs_merged, stars_gained |-> act.stars_gained,
     contributors |-> act.contributors, metadata |-> act.metadata]

\* The values of a JSON document.
JsonNull == [json |-> "null"]

JsonNumber(n) == [json |-> "number", literal |-> n]

JsonString(str) == [json |-> "string", chars |-> str]

JsonObject(items) ==
    [json |-> "object",
     members |-> [i \in 1..Len(items) |->
                    <<items[i][1], JsonString(items[i][2])>>]]

\* What the encoder writes for a metadata value: null for None, an object
\* with the items in order for a dict.
JsonOfMetadata(m) == IF m = PyNone THEN JsonNull ELSE JsonObject(m.items)

\* What the decoder builds from it.
MetadataOfJson(v) ==
    IF v = JsonNull THEN PyNone
    ELSE PyDict([i \in 1..Len(v.members) |->
                   <<v.members[i][1], v.members[i][2].chars>>])

\* json.dump with None written as an empty object.
json_dump_none_as_empty(dict) ==
    [agent_id      |-> JsonString(dict.agent_id),
     date          |-> JsonString(dict.date),
     commits       |-> JsonNumber(dict.commits),
     releases      |-> JsonNumber(dict.releases),
     issues_closed |-> JsonNumber(dict.issues_closed),
     prs_merged    |-> JsonNumber(dict.prs_merged),
     stars_gained  |-> JsonNumber(dict.stars_gained),
     contributors  |-> JsonNumber(dict.contributors),
     metadata      |-> IF dict.metadata = PyNone
                         THEN JsonObject(<< >>)
                         ELSE JsonObject(dict.metadata.items)]

\* json.dump(snapshot.dict(), f, indent=2): the document in the file.
json_dump(dict) ==
    [agent_id      |-> JsonString(dict.agent_id),
     date          |-> JsonString(dict.date),
     commits       |-> JsonNumber(dict.commits),
     releases      |-> JsonNumber(dict.releases),
     issues_closed |-> JsonNumber(dict.issues_closed),
     prs_merged    |-> JsonNumber(dict.prs_merged),
     stars_gained  |-> JsonNumber(dict.stars_gained),
     contributors  |-> JsonNumber(dict.contributors),
     metadata      |-> JsonOfMetadata(dict.metadata)]

\* json.load(f): the dict of the document.
json_load(doc) ==
    [agent_id      |-> doc.agent_id.chars,
     date          |-> doc.date.chars,
     commits       |-> doc.commits.literal,
     releases      |-> doc.releases.literal,
     issues_closed |-> doc.issues_closed.literal,
     prs_merged    |-> doc.prs_merged.literal,
     stars_gained  |-> doc.stars_gained.literal,
     contributors  |-> doc.contributors.literal,
     metadata      |-> MetadataOfJson(doc.metadata)]

\* No file under that path.
NoFile == [exists |-> FALSE]

RECURSIVE Gcd(_, _)
Gcd(a, b) == IF b = 0 THEN a ELSE Gcd(b, a % b)

Abs(x) == IF x < 0 THEN -x ELSE x

\* The quotient n / d (d # 0) as a fraction in lowest terms with d > 0.
Frac(n, d) ==
    LET g == Gcd(Abs(n), Abs(d))
        s == IF d < 0 THEN -1 ELSE 1
    IN  [n |-> (s * n) \div g, d |-> (s * d) \div g]

FracLeq(x, y) == x.n * y.d <= y.n * x.d

RECURSIVE SumCommits(_)
SumCommits(snapshots) ==
    IF snapshots = << >> THEN 0
    ELSE Head(snapshots).commits + SumCommits(Tail(snapshots))

RECURSIVE SumReleases(_)
SumReleases(snapshots) ==
    IF snapshots = << >> THEN 0
    ELSE Head(snapshots).releases + SumReleases(Tail(snapshots))

\* The baseline as the first three snapshots.
BaselineWindowOfThree(snapshots) ==
    IF Len(snapshots) >= 3 THEN SubSeq(snapshots, 1, 3) ELSE snapshots

\* snapshots[:7] if len(snapshots) >= 7 else snapshots
BaselineWindow(snapshots) ==
    IF Len(snapshots) >= 7 THEN SubSeq(snapshots, 1, 7) ELSE snapshots

\* snapshots[-7:] if len(snapshots) >= 7 else snapshots
RecentWindow(snapshots) ==
    IF Len(snapshots) >= 7
      THEN SubSeq(snapshots, Len(snapshots) - 6, Len(snapshots))
      ELSE snapshots

\* The velocity with a release counted as one commit.
VelocityUnweighted(window) ==
    Frac(SumCommits(window) + SumReleases(window), Len(window))

\* (commits + releases * 5) / days
Velocity(window) ==
    Frac(SumCommits(window) + SumReleases(window) * 5, Len(window))

\* lines 262-265 with the branches of line 263 swapped.
PdrOfSwapped(baseline_velocity, current_velocity) ==
    IF baseline_velocity.n = 0
      THEN IF current_velocity.n > 0 THEN Frac(1, 2) ELSE Frac(1, 1)
      ELSE LET q == Frac(current_velocity.n * baseline_velocity.d,
                         current_velocity.d * baseline_velocity.n)
           IN  IF FracLeq(q, Frac(2, 1)) THEN q ELSE Frac(2, 1)

\* lines 262-265
PdrOf(baseline_velocity, current_velocity) ==
    IF baseline_velocity.n = 0
      THEN IF current_velocity.n > 0 THEN Frac(1, 1) ELSE Frac(1, 2)
      ELSE LET q == Frac(current_velocity.n * baseline_velocity.d,
                         current_velocity.d * baseline_velocity.n)
           IN  IF FracLeq(q, Frac(2, 1)) THEN q ELSE Frac(2, 1)

\* compute_pdr(agent_id, snapshots): the PDR and the provenance record's
\* computation (the sums, the days, the velocities).
compute_pdr(snapshots) ==
    IF snapshots = << >>
      THEN [pdr |-> Frac(0, 1), error |-> "no_snapshots"]
      ELSE LET baseline_snapshots == BaselineWindow(snapshots)
               recent_snapshots   == RecentWindow(snapshots)
               baseline_velocity  == Velocity(baseline_snapshots)
               current_velocity   == Velocity(recent_snapshots)
           IN  [pdr               |-> PdrOf(baseline_velocity, current_velocity),
                error             |-> "",
                baseline_commits  |-> SumCommits(baseline_snapshots),
                baseline_releases |-> SumReleases(baseline_snapshots),
                baseline_days     |-> Len(baseline_snapshots),
                baseline_velocity |-> baseline_velocity,
                current_commits   |-> SumCommits(recent_snapshots),
                current_releases  |-> SumReleases(recent_snapshots),
                current_days      |-> Len(recent_snapshots),
                current_velocity  |-> current_velocity]

\* compute_quality_score(snapshots)
compute_quality_score(snapshots) ==
    IF snapshots = << >> THEN 50
    ELSE LET latest  == snapshots[Len(snapshots)]
             quality == latest.stars_gained + (latest.contributors * 5)
                          + (latest.issues_closed * 2)
         IN  Min(quality * 2, 100)

\* overall_score = (pdr * 70) + (quality_score * 0.3), as a fraction
OverallScore(pdr, quality_score) ==
    Frac(pdr.n * 700 + quality_score * 3 * pdr.d, pdr.d * 10)

VARIABLES
    agent_id,       \* the identifier of the requests of this run
    evidence,       \* the evidence mapping of the requests of this run
    github_data,    \* what the first _fetch_github returned in the last call
    result,         \* what the last _calc_score returned, or NoCall
    demo_prev,      \* the result of the demo-mode call before the last one
    snapshots,      \* SpecPdr: the snapshot sequence handed to the core
    pdr_result,     \* SpecPdr: what compute_pdr returned for it, or NotCalled
    snapshot_files, \* SNAPSHOTS_DIR/<agent_id>/<date>.json: the dict or NoFile
    agent_dirs,     \* the agents whose directory SNAPSHOTS_DIR/<agent_id> exists
    score_files,    \* SCORES_DIR/<agent_id>.json: the cached score or NoFile
    request,        \* the last request of the pilot endpoints
    response,       \* its answer: the status code and the body
    core_arg,       \* the sequence the last request handed to the core, if any
    inflight,       \* SpecRace: the score requests in flight, by request
    http_request,   \* SpecHttp: the last request of handler
    http_response,  \* SpecHttp: its answer
    calc_args,      \* SpecHttp: the identifiers it passed to _calc_score
    bonus_in,       \* SpecBonus: the factors, evidence and second fetch result
    bonus_out,      \* SpecBonus: the factors after the evidence bonuses
    ingested,       \* history: the record of the last successful ingest, by key
    scored          \* history: the overall_score last returned, by agent

score_vars == <<agent_id, evidence, github_data, result, demo_prev>>

pdr_vars == <<snapshots, pdr_result>>

pilot_vars == <<snapshot_files, agent_dirs, score_files, request, response, core_arg>>

race_vars == <<inflight>>

hist_vars == <<ingested, scored>>

http_vars == <<http_request, http_response, calc_args>>

bonus_vars == <<bonus_in, bonus_out>>

aux_vars == <<race_vars, http_vars, bonus_vars>>

vars == <<score_vars, pdr_vars, pilot_vars, aux_vars, hist_vars>>

NoCall == [raised |-> FALSE, agent_id |-> "", verification |-> "none"]

NotCalled == [called |-> FALSE]

NoRequest == [op |-> "none"]

\* The names of the score requests that SpecRace runs side by side.
Requests == {"r1", "r2"}

\* A request that has not been received.
IdleRequest == [pc |-> "idle"]

\* No score request is in flight.
RaceIdle == inflight = [r \in Requests |-> IdleRequest]

\* handler has served no request.
HttpIdle ==
    /\ http_request = NoRequest
    /\ http_response = NoRequest
    /\ calc_args = << >>

\* The evidence bonuses have not been applied.
BonusIdle ==
    /\ bonus_in = NotCalled
    /\ bonus_out = NotCalled

AuxIdle == RaceIdle /\ HttpIdle /\ BonusIdle

\* No request has been answered.
NoHistory ==
    /\ ingested = [a \in Agents |-> [d \in Dates |-> NoFile]]
    /\ scored = [a \in Agents |-> NoFile]

IsResult(r) == r # NoCall /\ ~r.raised

IsDemo(r) == IsResult(r) /\ r.verification = "demo_unverified"

\* The state of the score engine before any request.
ScoreIdle ==
    /\ github_data = [found |-> FALSE]
    /\ result = NoCall
    /\ demo_prev = NoCall

\* The core before any call.
PdrIdle ==
    /\ snapshots = << >>
    /\ pdr_result = NotCalled

\* The pilot data directory as the import of pilot.py leaves it: the two
\* directories exist (lines 23-24) and are empty.
PilotEmpty ==
    /\ snapshot_files = [a \in Agents |-> [d \in Dates |-> NoFile]]
    /\ agent_dirs = {}
    /\ score_files = [a \in Agents |-> NoFile]
    /\ request = NoRequest
    /\ response = NoRequest
    /\ core_arg = NotCalled

InitScore ==
    /\ agent_id \in Identifiers
    /\ evidence \in EvidenceSet
    /\ ScoreIdle
    /\ PdrIdle
    /\ PilotEmpty
    /\ AuxIdle
    /\ NoHistory

\* One request that reaches _calc_score(agent_id, evidence).
Verify ==
    \E resp \in Network(agent_id) :
      \E ev_resp \in IF evidence.github # ""
                       THEN { [kind |-> "ok", data |-> CHOOSE d \in UserObjects : TRUE],
                              [kind |-> "http404"] }
                       ELSE { [kind |-> "http404"] } :
        /\ github_data' = _fetch_github(resp)
        /\ result' = _calc_score(agent_id, evidence, resp, ev_resp)
        /\ demo_prev' = IF IsDemo(result) THEN result ELSE demo_prev
        /\ UNCHANGED <<agent_id, evidence, pdr_vars, pilot_vars, aux_vars, hist_vars>>

NextScore == Verify

SpecScore == InitScore /\ [][NextScore]_vars

(***************************************************************************)
(* SpecPdr: the core functions on every snapshot sequence of 1 to          *)
(* MaxSnapshots records.                                                   *)
(***************************************************************************)

\* The sequences of 1 to MaxSnapshots snapshots of one agent, on the dates
\* 1, 2, ... in ascending order.
ActivitySeqs == UNION { [1..n -> ActivitySamples] : n \in 1..MaxSnapshots }

\* Three days with commits 2, 3, 5 and one release on the third.
ScenarioActs ==
    <<Activity(2, 0, 0, 0, 0, 0), Activity(3, 0, 0, 0, 0, 0),
      Activity(5, 1, 0, 0, 0, 0)>>

\* The files of the days 1..Len(acts) of one agent, loaded in date order.
SnapshotSeq(acts) ==
    [i \in 1..Len(acts) |-> SnapshotDict("getclawe", i, acts[i])]

InitPdr ==
    /\ agent_id = "getclawe"
    /\ evidence = NoEvidence
    /\ ScoreIdle
    /\ \E acts \in ActivitySeqs \cup {ScenarioActs} : snapshots = SnapshotSeq(acts)
    /\ pdr_result = NotCalled
    /\ PilotEmpty
    /\ AuxIdle
    /\ NoHistory

\* Lines 140-142 on the sequence.
ComputeScores ==
    /\ pdr_result = NotCalled
    /\ pdr_result' =
         [called |-> TRUE,
          pdr |-> compute_pdr(snapshots),
          quality_score |-> compute_quality_score(snapshots),
          overall_score |-> OverallScore(compute_pdr(snapshots).pdr,
                                         compute_quality_score(snapshots))]
    /\ UNCHANGED <<snapshots, score_vars, pilot_vars, aux_vars, hist_vars>>

NextPdr == ComputeScores

SpecPdr == InitPdr /\ [][NextPdr]_vars

(***************************************************************************)
(* SpecPilot: the endpoints of the pilot router on the data directory.     *)
(***************************************************************************)

HTTPException(status_code, detail) ==
    [status |-> status_code, detail |-> detail]

\* sorted(agent_dir.glob("*.json")), each file loaded: the stored dicts in
\* ascending date order.
RECURSIVE LoadFrom(_, _)
LoadFrom(files, d) ==
    IF d > MaxDates THEN << >>
    ELSE IF files[d] = NoFile THEN LoadFrom(files, d + 1)
    ELSE <<json_load(files[d])>> \o LoadFrom(files, d + 1)

LoadSnapshots(a) == LoadFrom(snapshot_files[a], 1)

\* ingest_snapshot without the cohort check of lines 82-86.
ingest_snapshot_no_check(a, d, act) ==
    /\ request' = [op |-> "ingest", agent_id |-> a, date |-> d, body |-> act]
    /\ agent_dirs' = agent_dirs \cup {a}
    /\ snapshot_files' =
         [snapshot_files EXCEPT ![a][d] = json_dump(SnapshotDict(a, d, act))]
    /\ response' = [status |-> 200, detail |-> "ingested"]
    /\ core_arg' = NotCalled
    /\ UNCHANGED score_files

\* POST /pilot/ingest
ingest_snapshot(a, d, act) ==
    /\ request' = [op |-> "ingest", agent_id |-> a, date |-> d, body |-> act]
    /\ IF a \notin PILOT_COHORT
         THEN /\ response' = HTTPException(400, "not in pilot cohort")
              /\ UNCHANGED <<snapshot_files, agent_dirs>>
         ELSE /\ agent_dirs' = agent_dirs \cup {a}
              /\ snapshot_files' =
                   [snapshot_files EXCEPT
                      ![a][d] = json_dump(SnapshotDict(a, d, act))]
              /\ response' = [status |-> 200, detail |-> "ingested"]
    /\ core_arg' = NotCalled
    /\ UNCHANGED score_files

\* What lines 139-158 do with the loaded sequence.
ScoreAndCache(a, loaded) ==
    LET pdr           == compute_pdr(loaded)
        quality_score == compute_quality_score(loaded)
        score         == [agent_id      |-> a,
                          pdr           |-> pdr.pdr,
                          quality_score |-> quality_score,
                          overall_score |-> OverallScore(pdr.pdr, quality_score)]
    IN  /\ core_arg' = [called |-> TRUE, snapshots |-> loaded]
        /\ score_files' = [score_files EXCEPT ![a] = score]
        /\ response' = [status |-> 200, detail |-> "score", score |-> score]

\* get_agent_score without the checks of lines 122-137.
get_agent_score_no_data_check(a) ==
    /\ request' = [op |-> "score", agent_id |-> a]
    /\ IF a \notin PILOT_COHORT
         THEN /\ response' = HTTPException(404, "not in pilot cohort")
              /\ core_arg' = NotCalled
              /\ UNCHANGED score_files
         ELSE ScoreAndCache(a, LoadSnapshots(a))
    /\ UNCHANGED <<snapshot_files, agent_dirs>>

\* GET /pilot/score/{agent_id}
get_agent_score(a) ==
    /\ request' = [op |-> "score", agent_id |-> a]
    /\ IF a \notin PILOT_COHORT
         THEN /\ response' = HTTPException(404, "not in pilot cohort")
              /\ core_arg' = NotCalled
              /\ UNCHANGED score_files
         ELSE IF a \notin agent_dirs
         THEN /\ response' = HTTPException(404, "No snapshot data found")
              /\ core_arg' = NotCalled
              /\ UNCHANGED score_files
         ELSE IF LoadSnapshots(a) = << >>
         THEN /\ response' = HTTPException(404, "No snapshot data")
              /\ core_arg' = NotCalled
              /\ UNCHANGED score_files
         ELSE ScoreAndCache(a, LoadSnapshots(a))
    /\ UNCHANGED <<snapshot_files, agent_dirs>>

\* The row of one cohort agent with the score of the snapshots now stored.
CohortRowRecomputed(a) ==
    LET loaded == LoadSnapshots(a)
    IN  [agent_id        |-> a,
         snapshot_count  |-> Len(loaded),
         latest_snapshot |-> IF loaded = << >> THEN 0 ELSE loaded[Len(loaded)].date,
         current_score   |-> IF loaded = << >>
                               THEN NoFile
                               ELSE OverallScore(compute_pdr(loaded).pdr,
                                                 compute_quality_score(loaded))]

\* lines 168-196: the row of one cohort agent
CohortRow(a) ==
    LET loaded == LoadSnapshots(a)
    IN  [agent_id        |-> a,
         snapshot_count  |-> Len(loaded),
         latest_snapshot |-> IF loaded = << >> THEN 0 ELSE loaded[Len(loaded)].date,
         current_score   |-> IF score_files[a] = NoFile
                               THEN NoFile
                               ELSE score_files[a].overall_score]

\* GET /pilot/cohort
get_cohort_status ==
    /\ request' = [op |-> "cohort"]
    /\ response' =
         [status |-> 200, detail |-> "cohort",
          total_agents |-> Cardinality(PILOT_COHORT),
          active_agents |->
            Cardinality({a \in PILOT_COHORT : Len(LoadSnapshots(a)) > 0}),
          agents |-> [a \in PILOT_COHORT |-> CohortRow(a)]]
    /\ core_arg' = NotCalled
    /\ UNCHANGED <<snapshot_files, agent_dirs, score_files>>

\* GET /pilot/snapshot/{agent_id}/{snapshot_date}
get_snapshot(a, d) ==
    /\ request' = [op |-> "snapshot", agent_id |-> a, date |-> d]
    /\ response' =
         IF a \notin PILOT_COHORT
           THEN HTTPException(404, "not in pilot cohort")
         ELSE IF snapshot_files[a][d] = NoFile
           THEN HTTPException(404, "No snapshot found")
         ELSE [status |-> 200, detail |-> "snapshot",
               body |-> json_load(snapshot_files[a][d])]
    /\ core_arg' = NotCalled
    /\ UNCHANGED <<snapshot_files, agent_dirs, score_files>>

\* The bodies of the ingest requests of SpecPilot.
PilotBodies ==
    {Activity(0, 0, 0, 0, 0, 0),
     [Activity(1, 0, 3, 5, 10, 3) EXCEPT !.metadata = PyNone],
     [Activity(0, 1, 0, 1, 2, 1) EXCEPT
        !.metadata = PyDict(<< <<"source", "nanook">> >>)]}

InitPilot ==
    /\ agent_id = "getclawe"
    /\ evidence = NoEvidence
    /\ ScoreIdle
    /\ PdrIdle
    /\ PilotEmpty
    /\ AuxIdle
    /\ NoHistory

\* The history after one request: a successful ingest of record s is the
\* last one for the key (s.agent_id, s.date), and the overall_score of a
\* successful get_agent_score is the last one returned for the agent.
Recorded ==
    /\ ingested' =
         IF request'.op = "ingest" /\ response'.status = 200
           THEN [ingested EXCEPT ![request'.agent_id][request'.date] =
                   SnapshotDict(request'.agent_id, request'.date, request'.body)]
           ELSE ingested
    /\ scored' =
         IF request'.op = "score" /\ response'.status = 200
           THEN [scored EXCEPT ![request'.agent_id] = response'.score.overall_score]
           ELSE scored

NextPilot ==
    \/ \E a \in RequestAgents, d \in Dates, act \in PilotBodies :
         /\ ingest_snapshot(a, d, act)
         /\ Recorded
         /\ UNCHANGED <<score_vars, pdr_vars, aux_vars>>
    \/ \E a \in RequestAgents :
         /\ get_agent_score(a)
         /\ Recorded
         /\ UNCHANGED <<score_vars, pdr_vars, aux_vars>>
    \/ /\ get_cohort_status
       /\ Recorded
       /\ UNCHANGED <<score_vars, pdr_vars, aux_vars>>
    \/ \E a \in RequestAgents, d \in Dates :
         /\ get_snapshot(a, d)
         /\ Recorded
         /\ UNCHANGED <<score_vars, pdr_vars, aux_vars>>

SpecPilot == InitPilot /\ [][NextPilot]_vars

(***************************************************************************)
(* SpecRace: score requests of several server processes on one data        *)
(* directory.  A request reads the snapshot files (lines 114-137), then     *)
(* computes and writes the cached score (lines 139-158); the steps of       *)
(* different requests, and ingests, interleave between the two.            *)
(***************************************************************************)

\* The bodies of the ingest requests of SpecRace.
RaceBodies == {Activity(1, 0, 3, 5, 10, 3), Activity(0, 1, 0, 1, 2, 1)}

\* The TrustScore of lines 139-151 with the cached score counted in.
TrustScoreWithCache(a, loaded, now) ==
    LET pdr           == compute_pdr(loaded)
        quality_score == compute_quality_score(loaded)
                           - (IF score_files[a] = NoFile THEN 0 ELSE 1)
    IN  [agent_id      |-> a,
         pdr           |-> pdr.pdr,
         quality_score |-> quality_score,
         overall_score |-> OverallScore(pdr.pdr, quality_score),
         last_updated  |-> now]

\* Lines 139-151: the TrustScore of the loaded sequence.  last_updated is
\* datetime.utcnow() of the request that builds it.
TrustScore(a, loaded, now) ==
    LET pdr           == compute_pdr(loaded)
        quality_score == compute_quality_score(loaded)
    IN  [agent_id      |-> a,
         pdr           |-> pdr.pdr,
         quality_score |-> quality_score,
         overall_score |-> OverallScore(pdr.pdr, quality_score),
         last_updated  |-> now]

\* Lines 114-137 of request r: the checks and the loading of the files.
\* overlaps records whether another request for the agent has loaded and
\* not yet written.
BeginScore(r, a) ==
    /\ inflight[r].pc \in {"idle", "done"}
    /\ inflight' =
         [inflight EXCEPT ![r] =
            IF a \notin PILOT_COHORT
              THEN [pc |-> "done", agent_id |-> a, stale |-> FALSE,
                    response |-> HTTPException(404, "not in pilot cohort")]
            ELSE IF a \notin agent_dirs
              THEN [pc |-> "done", agent_id |-> a, stale |-> FALSE,
                    response |-> HTTPException(404, "No snapshot data found")]
            ELSE IF LoadSnapshots(a) = << >>
              THEN [pc |-> "done", agent_id |-> a, stale |-> FALSE,
                    response |-> HTTPException(404, "No snapshot data")]
            ELSE [pc |-> "loaded", agent_id |-> a, stale |-> FALSE,
                  snapshots |-> LoadSnapshots(a),
                  overlaps |-> \E q \in Requests \ {r} :
                                 /\ inflight[q].pc = "loaded"
                                 /\ inflight[q].agent_id = a]]
    /\ UNCHANGED <<score_vars, pdr_vars, pilot_vars, hist_vars>>
    /\ UNCHANGED <<http_vars, bonus_vars>>

\* Lines 139-158 of request r: the score of what it loaded, written to the
\* cache and returned.
FinishScore(r) ==
    /\ inflight[r].pc = "loaded"
    /\ LET a     == inflight[r].agent_id
           score == TrustScore(a, inflight[r].snapshots, r)
       IN  /\ score_files' = [score_files EXCEPT ![a] = score]
           /\ inflight' =
                [inflight EXCEPT ![r] =
                   [pc |-> "done", agent_id |-> a, stale |-> inflight[r].stale,
                    overlaps |-> inflight[r].overlaps,
                    response |-> [status |-> 200, detail |-> "score",
                                  score |-> score]]]
    /\ UNCHANGED <<snapshot_files, agent_dirs, request, response, core_arg>>
    /\ UNCHANGED <<score_vars, pdr_vars, hist_vars, http_vars, bonus_vars>>

\* POST /pilot/ingest while score requests are in flight: every request
\* received and not restarted since has an ingest after its start.
RaceIngest(a, d, act) ==
    /\ ingest_snapshot(a, d, act)
    /\ inflight' =
         [r \in Requests |->
            IF inflight[r].pc = "idle" THEN inflight[r]
            ELSE [inflight[r] EXCEPT !.stale = TRUE]]
    /\ UNCHANGED <<score_vars, pdr_vars, hist_vars, http_vars, bonus_vars>>

InitRace ==
    /\ agent_id = "getclawe"
    /\ evidence = NoEvidence
    /\ ScoreIdle
    /\ PdrIdle
    /\ PilotEmpty
    /\ RaceIdle
    /\ HttpIdle
    /\ BonusIdle
    /\ NoHistory

\* Ingests for agents outside the cohort store nothing (SpecPilot), so the
\* ingests here are those of the cohort agent.
NextRace ==
    \/ \E r \in Requests, a \in RequestAgents : BeginScore(r, a)
    \/ \E r \in Requests : FinishScore(r)
    \/ \E a \in RequestAgents \cap PILOT_COHORT, d \in Dates, act \in RaceBodies :
         RaceIngest(a, d, act)

SpecRace == InitRace /\ [][NextRace]_vars

(***************************************************************************)
(* SpecHttp: the routes of handler that reach _calc_score.                 *)
(***************************************************************************)

\* The identifiers left of the path after '/verify/' or '/badge/', and the
\* values of "agent_id" in a POST body; "" is the empty one.
HttpIds == {"", "gerundium"}

\* The answers of the network in SpecHttp: not found, or one user object.
\* No user has the empty name.
HttpNetwork(username) ==
    IF username = ""
      THEN { [kind |-> "http404"] }
      ELSE { [kind |-> "http404"],
             [kind |-> "ok", data |-> CHOOSE d \in UserObjects : TRUE] }

\* self._json(code, data)
Json(code, data) == [status |-> code, body |-> data]

\* lst[:5]
Take5(lst) == IF Len(lst) > 5 THEN SubSeq(lst, 1, 5) ELSE lst

\* The lists under "agents" in the bodies of POST /batch; an absent key
\* gives the default [].
BatchLists ==
    {<< >>, <<"">>, <<"gerundium", "">>,
     <<"gerundium", "torvalds", "gerundium", "torvalds", "gerundium", "">>}

\* The bodies of the POST requests.  "evidence" absent gives the default {},
\* which _calc_score treats as None.
PostBodies ==
    [agent_id : HttpIds \cup {Absent},
     evidence : {NoEvidence, [github |-> "octocat", website |-> "", did |-> ""]},
     agents   : BatchLists]

\* do_GET on the path prefix + id.
do_GET(prefix, id) ==
    /\ http_request' = [method |-> "GET", prefix |-> prefix, id |-> id]
    /\ IF prefix = "/health"
         THEN /\ http_response' = Json(200, "healthy")
              /\ calc_args' = << >>
       ELSE IF prefix = "/verify/"
         THEN IF id = ""
                THEN /\ http_response' = Json(400, "agent_id required")
                     /\ calc_args' = << >>
                ELSE \E resp \in HttpNetwork(id) :
                       /\ http_response' =
                            Json(200, _calc_score(id, NoEvidence, resp,
                                                  [kind |-> "http404"]))
                       /\ calc_args' = <<id>>
       ELSE \E resp \in HttpNetwork(id) :
              LET score == _calc_score(id, NoEvidence, resp, [kind |-> "http404"])
              IN  /\ http_response' =
                       [status |-> 200, content_type |-> "image/svg+xml",
                        grade |-> score.grade, trust_score |-> score.total]
                  /\ calc_args' = <<id>>
    /\ UNCHANGED <<score_vars, pdr_vars, pilot_vars, hist_vars>>
    /\ UNCHANGED <<race_vars, bonus_vars>>

\* do_POST on the path with the JSON body.
do_POST(path, body) ==
    /\ http_request' = [method |-> "POST", path |-> path, body |-> body]
    /\ IF path = "/verify"
         THEN LET id == Get(body, "agent_id", "unknown")
              IN  \E resp \in HttpNetwork(id),
                     ev_resp \in HttpNetwork(body.evidence.github) :
                    /\ http_response' =
                         Json(200, _calc_score(id, body.evidence, resp, ev_resp))
                    /\ calc_args' = <<id>>
       ELSE IF path = "/batch"
         THEN LET agents == Take5(body.agents)
              IN  \E resps \in [1..Len(agents) -> HttpNetwork("gerundium")] :
                    /\ \A i \in 1..Len(agents) : resps[i] \in HttpNetwork(agents[i])
                    /\ http_response' =
                         Json(200,
                              [results |-> [i \in 1..Len(agents) |->
                                              _calc_score(agents[i], NoEvidence, resps[i],
                                                          [kind |-> "http404"])],
                               count |-> Len(agents)])
                    /\ calc_args' = agents
       ELSE /\ http_response' = Json(404, "Not found")
            /\ calc_args' = << >>
    /\ UNCHANGED <<score_vars, pdr_vars, pilot_vars, hist_vars>>
    /\ UNCHANGED <<race_vars, bonus_vars>>

InitHttp ==
    /\ agent_id = "gerundium"
    /\ evidence = NoEvidence
    /\ ScoreIdle
    /\ PdrIdle
    /\ PilotEmpty
    /\ AuxIdle
    /\ NoHistory

NextHttp ==
    \/ \E prefix \in {"/health", "/verify/", "/badge/"}, id \in HttpIds :
         do_GET(prefix, id)
    \/ \E path \in {"/verify", "/batch", "/other"}, body \in PostBodies :
         do_POST(path, body)

SpecHttp == InitHttp /\ [][NextHttp]_vars

(***************************************************************************)
(* SpecBonus: the evidence bonuses of _calc_score on every base value.     *)
(***************************************************************************)

\* The factors with one value for all five.
AllFactors(base) == [k \in {FactorNames[i] : i \in 1..Len(FactorNames)} |-> base]

InitBonus ==
    /\ agent_id = "gerundium"
    /\ evidence = NoEvidence
    /\ ScoreIdle
    /\ PdrIdle
    /\ PilotEmpty
    /\ RaceIdle
    /\ HttpIdle
    /\ NoHistory
    /\ \E base \in 0..100, ev \in EvidenceSet, found \in BOOLEAN :
         /\ found => ev.github # ""
         /\ bonus_in = [called |-> TRUE, factors |-> AllFactors(base),
                        evidence |-> ev, ev_found |-> found]
    /\ bonus_out = NotCalled

\* Lines 91-103 on the factors.
ApplyBonuses ==
    /\ bonus_out = NotCalled
    /\ bonus_out' =
         [called |-> TRUE,
          factors |-> EvidenceBonuses(bonus_in.factors, bonus_in.evidence,
                                      bonus_in.ev_found)]
    /\ UNCHANGED <<bonus_in, score_vars, pdr_vars, pilot_vars, hist_vars>>
    /\ UNCHANGED <<race_vars, http_vars>>

NextBonus == ApplyBonuses

SpecBonus == InitBonus /\ [][NextBonus]_vars

(***************************************************************************)
(* The claims                                                              *)
(***************************************************************************)

FactorKeys == {FactorNames[i] : i \in 1..Len(FactorNames)}

\* C1: each of the five factor values of a ScoreResult is between 0 and 100
\* inclusive, for every identifier, fetch outcome and evidence mapping.
C1_FactorsInRange ==
    IsResult(result) =>
      \A k \in FactorKeys : 0 <= result.factors[k] /\ result.factors[k] <= 100

\* C2: the PDR compute_pdr returns for a non-empty snapshot sequence is in
\* [0, 2.0].
C2_PdrInRange ==
    pdr_result # NotCalled =>
      /\ 0 <= pdr_result.pdr.pdr.n
      /\ pdr_result.pdr.pdr.n <= 2 * pdr_result.pdr.pdr.d

\* Every count that enters the velocities is non-negative.
NonNegativeCounts(seq) ==
    \A i \in 1..Len(seq) : seq[i].commits >= 0 /\ seq[i].releases >= 0

\* C3 as stated (here for sequences of non-negative counts): PDR == 1.0 if
\* and only if baseline_velocity == 0 and current_velocity > 0, and
\* PDR == 0.5 if and only if both are 0.
C3_PdrIffZeroBaseline ==
    (pdr_result # NotCalled /\ NonNegativeCounts(snapshots)) =>
      LET r == pdr_result.pdr
      IN  /\ (r.pdr = Frac(1, 1))
               <=> (r.baseline_velocity.n = 0 /\ r.current_velocity.n > 0)
          /\ (r.pdr = Frac(1, 2))
               <=> (r.baseline_velocity.n = 0 /\ r.current_velocity.n = 0)

\* C3 as amended: if baseline_velocity == 0 and current_velocity > 0 the PDR
\* is 1.0, and if both velocities are 0 the PDR is 0.5 (the converses do not
\* hold).
C3_PdrOfZeroBaseline ==
    pdr_result # NotCalled =>
      LET r == pdr_result.pdr
      IN  /\ (r.baseline_velocity.n = 0 /\ r.current_velocity.n > 0)
               => r.pdr = Frac(1, 1)
          /\ (r.baseline_velocity.n = 0 /\ r.current_velocity.n = 0)
               => r.pdr = Frac(1, 2)

\* A sequence whose first seven snapshots show no activity and whose last
\* seven do: the PDR returned is 1.0.
C3_Witness ==
    /\ pdr_result # NotCalled
    /\ NonNegativeCounts(snapshots)
    /\ pdr_result.pdr.baseline_velocity.n = 0
    /\ pdr_result.pdr.current_velocity.n > 0
    /\ pdr_result.pdr.pdr = Frac(1, 1)

\* C4: a snapshot stored under (agent_id, date) is never changed or removed
\* by a later request.
C4_SnapshotsImmutable ==
    [][\A a \in Agents, d \in Dates :
         snapshot_files[a][d] # NoFile
           => snapshot_files'[a][d] = snapshot_files[a][d]]_vars

\* C5: an ingest for an agent outside the cohort is answered with an error
\* and changes neither the snapshot store nor the score cache; only cohort
\* agents ever have stored snapshots.
C5_NonCohortIngestRejected ==
    /\ [](\A a \in Agents, d \in Dates :
            snapshot_files[a][d] # NoFile => a \in PILOT_COHORT)
    /\ [][(request'.op = "ingest" /\ request'.agent_id \notin PILOT_COHORT)
            => /\ response'.status = 400
               /\ snapshot_files' = snapshot_files
               /\ agent_dirs' = agent_dirs
               /\ score_files' = score_files]_vars

\* An ingest for "mallory" was refused while the store holds a snapshot.
C5_Witness ==
    /\ request.op = "ingest"
    /\ request.agent_id = "mallory"
    /\ response.status = 400
    /\ snapshot_files["getclawe"][1] # NoFile
    /\ \A d \in Dates : snapshot_files["mallory"][d] = NoFile

\* C6: get_agent_score hands the core a non-empty sequence only; a request for
\* an agent outside the cohort, or for a cohort agent with no stored
\* snapshot, is answered 404 without the core being called and without a
\* cached score being written.
C6_CoreNeverGetsEmpty ==
    [][request'.op = "score"
         => IF request'.agent_id \notin PILOT_COHORT
                 \/ \A d \in Dates : snapshot_files[request'.agent_id][d] = NoFile
              THEN /\ response'.status = 404
                   /\ core_arg' = NotCalled
                   /\ score_files' = score_files
              ELSE /\ core_arg' # NotCalled
                   /\ core_arg'.snapshots # << >>
                   /\ response'.status = 200]_vars

\* A score request for a cohort agent with no snapshot was refused.
C6_Witness ==
    /\ request.op = "score"
    /\ request.agent_id = "getclawe"
    /\ response.status = 404
    /\ core_arg = NotCalled
    /\ score_files["getclawe"] = NoFile

\* C7: two demo-mode scorings of an identifier (fetch not found, no
\* evidence) give the same five factors, total and grade; each demo factor is
\* 30 + (hash-derived integer mod 50) and lies in [30, 79].
C7_DemoDeterministic ==
    (IsDemo(result) /\ evidence = NoEvidence) =>
      /\ \A k \in FactorKeys :
           /\ result.factors[k] = 30 + (Sha256Hex4(agent_id, k) % 50)
           /\ 30 <= result.factors[k] /\ result.factors[k] <= 79
      /\ IsDemo(demo_prev) =>
           /\ result.factors = demo_prev.factors
           /\ result.total = demo_prev.total
           /\ result.grade = demo_prev.grade

\* The identifier was scored in demo mode twice.
C7_Witness ==
    /\ IsDemo(result)
    /\ IsDemo(demo_prev)
    /\ evidence = NoEvidence
    /\ ~github_data.found

\* C8: the grade is the step function of the total with exclusive lower
\* bounds 90, 80, 65, 50, 35; a total of exactly 50 is graded D and a total of
\* exactly 90 is graded A.
C8_GradeSteps ==
    IsResult(result) =>
      LET t == result.total
          g == result.grade
      IN  /\ (g = "A+") <=> (t > 9000)
          /\ (g = "A") <=> (8000 < t /\ t <= 9000)
          /\ (g = "B") <=> (6500 < t /\ t <= 8000)
          /\ (g = "C") <=> (5000 < t /\ t <= 6500)
          /\ (g = "D") <=> (3500 < t /\ t <= 5000)
          /\ (g = "F") <=> (t <= 3500)
          /\ t = 5000 => g = "D"
          /\ t = 9000 => g = "A"

\* A total of exactly 50 was graded D.
C8_Witness ==
    /\ IsResult(result)
    /\ result.total = 5000
    /\ result.grade = "D"

\* C9: _calc_score never raises on a non-empty identifier, whatever the
\* fetch gives, and a fetch failure is scored as the not-found (demo) branch.
C9_NeverRaises ==
    result # NoCall =>
      /\ ~result.raised
      /\ (~github_data.found /\ evidence = NoEvidence)
           => result.verification = "demo_unverified"

\* C10: for a profile that is found and no evidence, each factor equals its
\* specified formula: identity = clamp(30 + 8 * (2026 - year), 0, 90), plus 10
\* with a bio, capped at 100; provenance = clamp(20 + 2 * repos, 0, 100);
\* behavior = clamp(30 + 10 * ratio + min(30, repos), 0, 100) with the real
\* quotient ratio = followers / max(1, following), 1 when following is 0
\* (compared after multiplying by max(1, following)); reputation =
\* 20 + min(80, 2 * followers); transparency = clamp(20 + 3 * repos + 15 with
\* a blog, 0, 100).
C10_FoundFormulas ==
    (IsResult(result) /\ github_data.found /\ evidence = NoEvidence) =>
      LET gh    == github_data
          f     == result.factors
          g     == Max(1, gh.following)
          clamp(x, lo, hi) == Max(lo, Min(hi, x))
          num   == IF gh.following = 0 THEN 10 ELSE 10 * gh.followers
      IN  /\ gh.created_at # "" =>
               f.identity =
                 Min(100, clamp(30 + 8 * (2026 - IntPrefix4(gh.created_at)), 0, 90)
                            + (IF gh.bio # "" THEN 10 ELSE 0))
          /\ f.provenance = clamp(20 + 2 * gh.public_repos, 0, 100)
          /\ f.behavior * g =
               clamp(30 * g + num + Min(30, gh.public_repos) * g, 0, 100 * g)
          /\ f.reputation = 20 + Min(80, 2 * gh.followers)
          /\ f.transparency =
               clamp(20 + 3 * gh.public_repos + (IF gh.blog # "" THEN 15 ELSE 0),
                     0, 100)

\* commits + 5 * releases of the snapshots lo..hi of a sequence.
RECURSIVE WeightedSum(_, _, _)
WeightedSum(seq, lo, hi) ==
    IF lo > hi THEN 0
    ELSE seq[lo].commits + 5 * seq[lo].releases + WeightedSum(seq, lo + 1, hi)

C12_QualityInRange ==
    pdr_result # NotCalled =>
      LET last == snapshots[Len(snapshots)]
          q    == pdr_result.quality_score
      IN  /\ 0 <= q /\ q <= 100
          /\ q = Min(2 * (last.stars_gained + 5 * last.contributors
                            + 2 * last.issues_closed), 100)
          /\ q = compute_quality_score(<<last>>)

\* Every count of every snapshot is non-negative.
NonNegativeFields(seq) ==
    \A i \in 1..Len(seq) :
      /\ seq[i].commits >= 0 /\ seq[i].releases >= 0
      /\ seq[i].issues_closed >= 0 /\ seq[i].prs_merged >= 0
      /\ seq[i].stars_gained >= 0 /\ seq[i].contributors >= 0

\* C13: the overall_score 70 * PDR + 0.3 * quality_score is in the range 0 to
\* 100 for every stored snapshot sequence (here: of non-negative counts).
C13_OverallInRange ==
    (pdr_result # NotCalled /\ NonNegativeFields(snapshots)) =>
      /\ 0 <= pdr_result.overall_score.n
      /\ pdr_result.overall_score.n <= 100 * pdr_result.overall_score.d

\* The request was answered with a score and no ingest came after its start.
ScoredFresh(r) ==
    /\ inflight[r].pc = "done"
    /\ inflight[r].response.status = 200
    /\ ~inflight[r].stale

\* pdr, quality_score and overall_score of two scores are the same.
SameScores(x, y) ==
    /\ x.pdr = y.pdr
    /\ x.quality_score = y.quality_score
    /\ x.overall_score = y.overall_score

\* C14: get_agent_score requests for one agent, repeated or interleaved, with
\* no ingest since the first of them started, return the same pdr,
\* quality_score and overall_score and leave a cached score of these values,
\* whichever of them wrote last; no step of a score request changes the
\* snapshot store.
C14_ScoreRequestsIdempotent ==
    /\ [](\A r, q \in Requests :
            (r # q /\ ScoredFresh(r) /\ ScoredFresh(q)
               /\ inflight[r].agent_id = inflight[q].agent_id)
              => /\ SameScores(inflight[r].response.score,
                               inflight[q].response.score)
                 /\ score_files[inflight[r].agent_id] # NoFile
                 /\ SameScores(score_files[inflight[r].agent_id],
                               inflight[r].response.score))
    /\ [][(\E r \in Requests : inflight'[r].pc # inflight[r].pc)
            => /\ snapshot_files' = snapshot_files
               /\ agent_dirs' = agent_dirs]_vars

\* Request r2 loaded while r1 was between loading and writing, both were
\* answered with no ingest since, and the cache holds what r1 wrote.
C14_Witness ==
    /\ ScoredFresh("r1") /\ ScoredFresh("r2")
    /\ inflight["r1"].agent_id = "getclawe"
    /\ inflight["r2"].agent_id = "getclawe"
    /\ inflight["r2"].overlaps
    /\ score_files["getclawe"].last_updated = "r1"

\* C15: after a successful ingest of record s, get_snapshot(s.agent_id,
\* s.date) returns a record equal to s in every field, metadata included,
\* until another ingest for the same key.
C15_SnapshotRoundTrip ==
    request.op = "snapshot" =>
      LET s == ingested[request.agent_id][request.date]
      IN  IF s = NoFile
            THEN response.status = 404
            ELSE /\ response.status = 200
                 /\ response.body = s
                 /\ response.body.agent_id = request.agent_id
                 /\ response.body.date = request.date

\* A snapshot whose metadata is None, ingested over an earlier one for the
\* same key, was read back.
C15_Witness ==
    /\ request.op = "snapshot"
    /\ response.status = 200
    /\ response.body.metadata = PyNone
    /\ response.body.commits = 1
    /\ response.body = ingested[request.agent_id][request.date]

\* The request names no identifier: the path ends after the prefix, the
\* body has no "agent_id" or an empty one, or one of the first five agents
\* of a batch is empty.
EmptyOrMissingId(req) ==
    IF req.method = "GET"
      THEN req.prefix \in {"/verify/", "/badge/"} /\ req.id = ""
    ELSE IF req.path = "/verify"
      THEN req.body.agent_id \in {"", Absent}
    ELSE /\ req.path = "/batch"
         /\ \E i \in 1..Len(req.body.agents) : i <= 5 /\ req.body.agents[i] = ""

\* C16: GET /verify/{id}, GET /badge/{id}, POST /verify and POST /batch
\* reject an empty or missing identifier before calling _calc_score, so
\* _calc_score is never called with an empty identifier.
C16_EmptyIdRejected ==
    http_request # NoRequest =>
      /\ \A i \in 1..Len(calc_args) : calc_args[i] # ""
      /\ EmptyOrMissingId(http_request)
           => (http_response.status = 400 /\ calc_args = << >>)

\* 1 if the condition holds, 0 if not.
Bit(b) == IF b THEN 1 ELSE 0

\* One evidence bonus, clamped to the ceiling, if it fires.
BonusStep(f, name, github_found, website, did) ==
    CASE name = "github" ->
           IF github_found
             THEN [f EXCEPT !.identity = Min(100, @ + 15),
                            !.transparency = Min(100, @ + 10)]
             ELSE f
      [] name = "website" ->
           IF website THEN [f EXCEPT !.transparency = Min(100, @ + 10)] ELSE f
      [] name = "did" ->
           IF did THEN [f EXCEPT !.identity = Min(100, @ + 20)] ELSE f

\* The orders in which the three bonuses can be applied.
BonusOrders ==
    {o \in [1..3 -> {"github", "website", "did"}] :
       \A i, j \in 1..3 : i # j => o[i] # o[j]}

\* C17: whichever evidence bonuses fire and in whatever order they are
\* applied, the final identity is min(100, base + 15 * [github found] +
\* 20 * [did]) and the final transparency is min(100, base + 10 * [github
\* found] + 10 * [website]), for every base value in 0..100; the other
\* factors keep their base value.
C17_BonusesOrderFree ==
    bonus_out # NotCalled =>
      LET base    == bonus_in.factors
          ev      == bonus_in.evidence
          gh      == ev.github # "" /\ bonus_in.ev_found
          website == ev.website # ""
          did     == ev.did # ""
          f       == bonus_out.factors
      IN  /\ f.identity = Min(100, base.identity + 15 * Bit(gh) + 20 * Bit(did))
          /\ f.transparency =
               Min(100, base.transparency + 10 * Bit(gh) + 10 * Bit(website))
          /\ f.provenance = base.provenance
          /\ f.behavior = base.behavior
          /\ f.reputation = base.reputation
          /\ \A o \in BonusOrders :
               f = BonusStep(BonusStep(BonusStep(base, o[1], gh, website, did),
                                       o[2], gh, website, did),
                             o[3], gh, website, did)

\* All three bonuses fired on a base of 90: both factors end at the ceiling.
C17_Witness ==
    /\ bonus_out # NotCalled
    /\ bonus_in.factors.identity = 90
    /\ bonus_in.evidence.github # "" /\ bonus_in.ev_found
    /\ bonus_in.evidence.website # ""
    /\ bonus_in.evidence.did # ""
    /\ bonus_out.factors.identity = 100
    /\ bonus_out.factors.transparency = 100

\* C18: the current_score that get_cohort_status reports for an agent is the
\* overall_score of the most recent successful get_agent_score for that
\* agent, and None if there was none; ingests made after that call do not
\* change it.
C18_CohortScoreIsLastScored ==
    request.op = "cohort" =>
      \A a \in PILOT_COHORT : response.agents[a].current_score = scored[a]

\* get_cohort_status reported a score returned before the last ingest: it is
\* not the score of the snapshots now stored.
C18_Witness ==
    /\ request.op = "cohort"
    /\ scored["getclawe"] # NoFile
    /\ response.agents["getclawe"].current_score = scored["getclawe"]
    /\ response.agents["getclawe"].current_score
         # OverallScore(compute_pdr(LoadSnapshots("getclawe")).pdr,
                        compute_quality_score(LoadSnapshots("getclawe")))

\* C19: with 1 to 6 snapshots the baseline and recent windows are the same
\* snapshots, so the PDR is exactly 1.0 when the common velocity is non-zero
\* and exactly 0.5 when it is zero; a PDR other than 0.5 or 1.0 occurs only
\* with 7 or more snapshots.
C19_ShortHistoryPdr ==
    pdr_result # NotCalled =>
      LET r == pdr_result.pdr
          n == Len(snapshots)
      IN  /\ (1 <= n /\ n <= 6) =>
               /\ r.baseline_days = n /\ r.current_days = n
               /\ r.baseline_commits = r.current_commits
               /\ r.baseline_releases = r.current_releases
               /\ r.baseline_velocity = r.current_velocity
               /\ r.current_velocity.n # 0 => r.pdr = Frac(1, 1)
               /\ r.current_velocity.n = 0 => r.pdr = Frac(1, 2)
          /\ r.pdr \notin {Frac(1, 2), Frac(1, 1)} => n >= 7

\* Six days with activity on the last one only: PDR 1.0.
C19_Witness ==
    /\ pdr_result # NotCalled
    /\ Len(snapshots) = 6
    /\ \A i \in 1..5 : snapshots[i].commits = 0 /\ snapshots[i].releases = 0
    /\ snapshots[6].commits = 1
    /\ pdr_result.pdr.current_velocity = Frac(1, 6)
    /\ pdr_result.pdr.pdr = Frac(1, 1)

====
